---- MODULE Spec2Model ----
(***************************************************************************)
(* deeplx-cli: one run of main() in src/main.go, from looking up the      *)
(* current user to the process exit.  Language codes, URLs, log messages   *)
(* and translated texts are strings; the text to translate is a sequence   *)
(* of characters, because the code builds it by concatenation and trims    *)
(* it.  The file system, the command line, standard input, the HTTP        *)
(* exchange and the clipboard are the environment: every outcome the code  *)
(* distinguishes is drawn from a small set.                                *)
(***************************************************************************)
EXTENDS Integers, Sequences, FiniteSets, TLC

\* ------------------------------------------------------------------ bounds
\* The largest number of positional arguments on the command line.
MaxArgs == 2
\* The largest number of characters on standard input.
MaxStdinLen == 3

\* --------------------------------------------------------------- constants
defaultDeepLXAPI == "https://deeplx.vercel.app/translate"
version == "dev"
StatusOK == 200

LF == "\n"
SP == " "

\* ------------------------------------------------------------------- state
VARIABLES
    pc,                 \* position of main(): the next step to run
    fs,                 \* the config file and what the file system lets us do
    configWrites,       \* number of os.WriteFile calls on the config path
    cfg,                \* cfg *Config
    flagsGiven,         \* names of the flags present on the command line
    textArg,
    sourceLangArg,
    sourceLangShortArg,
    targetLangArg,
    targetLangShortArg,
    urlArg,
    versionFlag,
    args,               \* flag.Args()
    finalURL,
    finalSourceLang,
    finalTargetLang,
    stdinRead,          \* the bytes io.ReadAll(os.Stdin) returned; NoRead before
    inputText,
    requests,           \* the calls of http.Post, in order
    response,           \* the outcome of the HTTP exchange; NoResponse before
    translatedText,
    clipboard,
    clipboardErr,       \* err of clipboard.WriteAll; NoErr before the call
    stdout,             \* the writes to standard output, in order
    stderr,             \* the log lines, in order
    exitCode            \* Running until the process ends

vars == <<pc, fs, configWrites, cfg, flagsGiven, textArg, sourceLangArg,
          sourceLangShortArg, targetLangArg, targetLangShortArg, urlArg,
          versionFlag, args, finalURL, finalSourceLang, finalTargetLang,
          stdinRead, inputText, requests, response, translatedText, clipboard, clipboardErr,
          stdout, stderr, exitCode>>

Running == -1

\* ------------------------------------------------------------ Config, YAML
\* type Config struct: the zero value, as &Config{} builds it.
EmptyConfig == [URL |-> "", SourceLang |-> "", TargetLang |-> ""]

\* defaultConfig of main()
DefaultConfig == [URL |-> defaultDeepLXAPI, SourceLang |-> "auto", TargetLang |-> "EN"]

\* A YAML document is a mapping from keys to strings.
NoDoc == [k \in {} |-> ""]

YamlGet(doc, key) == IF key \in DOMAIN doc THEN doc[key] ELSE ""

\* yaml.Marshal with the URL under the key the README's example uses.
YamlMarshal_ReadmeKey(c) ==
    [deeplx_api |-> c.URL, source_lang |-> c.SourceLang, target_lang |-> c.TargetLang]

\* yaml.Marshal of a Config: one key per field, named by the field's yaml tag.
YamlMarshal(c) == [url |-> c.URL, source_lang |-> c.SourceLang, target_lang |-> c.TargetLang]

\* yaml.Unmarshal with the URL taken from the key the README's example uses.
YamlUnmarshal_ReadmeKey(doc) ==
    [URL |-> YamlGet(doc, "deeplx_api"),
     SourceLang |-> YamlGet(doc, "source_lang"),
     TargetLang |-> YamlGet(doc, "target_lang")]

\* yaml.Unmarshal into a Config: a field takes the value of the key its tag
\* names, and keeps its zero value when the document has no such key; keys
\* that no tag names are ignored.
YamlUnmarshal(doc) ==
    [URL |-> YamlGet(doc, "url"),
     SourceLang |-> YamlGet(doc, "source_lang"),
     TargetLang |-> YamlGet(doc, "target_lang")]

\* The documents a config file may hold: the one of main_test.go (with a
\* source language that differs from the default), the example of the README,
\* whose URL key is deeplx_api, one that gives the target language as the
\* empty string, and an empty document.
DocFull == [url |-> "http://localhost:8080", source_lang |-> "JA", target_lang |-> "ZH"]
DocReadme == [deeplx_api |-> defaultDeepLXAPI, source_lang |-> "auto", target_lang |-> "EN"]
DocBlankTarget == [url |-> "http://localhost:8080", source_lang |-> "JA", target_lang |-> ""]
ConfigDocs == {DocFull, DocReadme, DocBlankTarget, NoDoc}

\* The file system as the run finds it.
\*   exists    the config file is there
\*   parses    its bytes are a YAML document that fits Config
\*   doc       that document
\*   readable  os.ReadFile succeeds on it
\*   statFails os.Stat fails with an error other than "not exist"
\*   writable  os.WriteFile can create the file
FileSystems ==
    {[exists |-> FALSE, parses |-> FALSE, doc |-> NoDoc, readable |-> FALSE,
      statFails |-> sf, writable |-> w] : sf \in {FALSE}, w \in BOOLEAN}
    \cup
    {[exists |-> FALSE, parses |-> FALSE, doc |-> NoDoc, readable |-> FALSE,
      statFails |-> TRUE, writable |-> FALSE]}
    \cup
    {[exists |-> TRUE, parses |-> TRUE, doc |-> d, readable |-> TRUE,
      statFails |-> FALSE, writable |-> TRUE] : d \in ConfigDocs}
    \cup
    {[exists |-> TRUE, parses |-> FALSE, doc |-> NoDoc, readable |-> TRUE,
      statFails |-> FALSE, writable |-> TRUE],
     [exists |-> TRUE, parses |-> TRUE, doc |-> DocFull, readable |-> FALSE,
      statFails |-> FALSE, writable |-> FALSE]}

\* ------------------------------------------------------------------ errors
NoErr == [kind |-> "nil", code |-> 0, detail |-> ""]
Err(kind, code, detail) == [kind |-> kind, code |-> code, detail |-> detail]

\* One log line: log.Printf and log.Fatalf write to standard error.
Log(msg, err) == [msg |-> msg, err |-> err]

\* loadConfig: the *Config and the error it returns.
loadConfig(f) ==
    IF ~(f.exists /\ f.readable)
        THEN [config |-> EmptyConfig, err |-> Err("read config", 0, "")]
    ELSE IF ~f.parses
        THEN [config |-> EmptyConfig, err |-> Err("parse config", 0, "")]
    ELSE [config |-> YamlUnmarshal(f.doc), err |-> NoErr]

\* ------------------------------------------------------------ command line
\* The flags main() defines: those with a string value, and -version / -v.
StringFlags == {"text", "source_lang", "s", "target_lang", "t", "url"}
AllFlags == StringFlags \cup {"version"}

\* -------------------------------------------------------------------- Init
\* The command line is there when the process starts: which flags it names
\* is fixed from the first state on, their values are read by flag.Parse.
NoRead == <<"no read">>
NoResponse == [sendOK |-> FALSE, status |-> 0, readOK |-> FALSE,
               body |-> [raw |-> "", parses |-> FALSE, doc |-> NoDoc]]

Init ==
    /\ pc = "user"
    /\ fs \in FileSystems
    /\ configWrites = 0
    /\ cfg = EmptyConfig
    /\ flagsGiven \in SUBSET AllFlags
    /\ textArg = <<>>
    /\ sourceLangArg = ""
    /\ sourceLangShortArg = ""
    /\ targetLangArg = ""
    /\ targetLangShortArg = ""
    /\ urlArg = ""
    /\ versionFlag = FALSE
    /\ args = <<>>
    /\ finalURL = ""
    /\ finalSourceLang = ""
    /\ finalTargetLang = ""
    /\ stdinRead = NoRead
    /\ inputText = <<>>
    /\ requests = <<>>
    /\ response = NoResponse
    /\ translatedText = ""
    /\ clipboard = "previous clipboard"
    /\ clipboardErr = NoErr
    /\ stdout = <<>>
    /\ stderr = <<>>
    /\ exitCode = Running

\* log.Fatalf: the message goes to standard error and the process exits 1.
Fatal(msg, err) ==
    /\ stderr' = Append(stderr, Log(msg, err))
    /\ exitCode' = 1
    /\ pc' = "exit"

\* ------------------------------------------------------- main: user lookup
GetUser ==
    /\ pc = "user"
    /\ \E ok \in BOOLEAN :
        IF ok
            THEN /\ pc' = "stat"
                 /\ UNCHANGED <<stderr, exitCode>>
            ELSE Fatal("failed to get current user home directory", Err("user", 0, ""))
    /\ UNCHANGED <<fs, configWrites, cfg, flagsGiven, textArg, sourceLangArg,
                   sourceLangShortArg, targetLangArg, targetLangShortArg, urlArg,
                   versionFlag, args, finalURL, finalSourceLang, finalTargetLang,
                   stdinRead, inputText, requests, response, translatedText,
                   clipboard, clipboardErr, stdout>>

\* The generation step without the existence check: the default config is
\* written over whatever is there.
CheckConfig_Overwrites ==
    /\ pc = "stat"
    /\ IF fs.statFails
          THEN /\ Fatal("failed to check config file", Err("stat", 0, ""))
               /\ UNCHANGED <<fs, configWrites, cfg>>
          ELSE /\ configWrites' = configWrites + 1
               /\ IF fs.writable
                     THEN /\ fs' = [fs EXCEPT !.exists = TRUE, !.parses = TRUE,
                                              !.readable = TRUE,
                                              !.doc = YamlMarshal(DefaultConfig)]
                          /\ stderr' = stderr \o
                                <<Log("Config file does not exist, generating default config.", NoErr),
                                  Log("Default config file generated", NoErr)>>
                     ELSE /\ fs' = fs
                          /\ stderr' = stderr \o
                                <<Log("Config file does not exist, generating default config.", NoErr),
                                  Log("Warning: Failed to write default config file", Err("write", 0, ""))>>
               /\ cfg' = DefaultConfig
               /\ pc' = "load"
               /\ UNCHANGED exitCode
    /\ UNCHANGED <<flagsGiven, textArg, sourceLangArg, sourceLangShortArg,
                   targetLangArg, targetLangShortArg, urlArg, versionFlag, args,
                   finalURL, finalSourceLang, finalTargetLang, stdinRead,
                   inputText, requests, response, translatedText, clipboard, clipboardErr,
                   stdout>>

\* ------------------------------- main: existence check, default generation
\* os.Stat reports "not exist": the default config is marshalled and written,
\* and becomes cfg whether or not the write succeeded.  Any other Stat error
\* is fatal.  An existing file is left alone.
CheckConfig ==
    /\ pc = "stat"
    /\ IF fs.statFails
          THEN /\ Fatal("failed to check config file", Err("stat", 0, ""))
               /\ UNCHANGED <<fs, configWrites, cfg>>
       ELSE IF ~fs.exists
          THEN /\ configWrites' = configWrites + 1
               /\ IF fs.writable
                     THEN /\ fs' = [fs EXCEPT !.exists = TRUE, !.parses = TRUE,
                                              !.readable = TRUE,
                                              !.doc = YamlMarshal(DefaultConfig)]
                          /\ stderr' = stderr \o
                                <<Log("Config file does not exist, generating default config.", NoErr),
                                  Log("Default config file generated", NoErr)>>
                     ELSE /\ fs' = fs
                          /\ stderr' = stderr \o
                                <<Log("Config file does not exist, generating default config.", NoErr),
                                  Log("Warning: Failed to write default config file", Err("write", 0, ""))>>
               /\ cfg' = DefaultConfig
               /\ pc' = "load"
               /\ UNCHANGED exitCode
       ELSE /\ pc' = "load"
            /\ UNCHANGED <<fs, configWrites, cfg, stderr, exitCode>>
    /\ UNCHANGED <<flagsGiven, textArg, sourceLangArg, sourceLangShortArg,
                   targetLangArg, targetLangShortArg, urlArg, versionFlag, args,
                   finalURL, finalSourceLang, finalTargetLang, stdinRead,
                   inputText, requests, response, translatedText, clipboard, clipboardErr,
                   stdout>>

\* ------------------------------------------------------ main: load config
LoadConfig ==
    /\ pc = "load"
    /\ LET r == loadConfig(fs) IN
        IF r.err # NoErr
            THEN /\ stderr' = Append(stderr,
                        Log("Warning: Failed to load or parse config file, using default values or command-line arguments", r.err))
                 /\ cfg' = cfg
            ELSE /\ cfg' = r.config
                 /\ stderr' = stderr
    /\ pc' = "flags"
    /\ UNCHANGED <<fs, configWrites, flagsGiven, textArg, sourceLangArg,
                   sourceLangShortArg, targetLangArg, targetLangShortArg, urlArg,
                   versionFlag, args, finalURL, finalSourceLang, finalTargetLang,
                   stdinRead, inputText, requests, response, translatedText,
                   clipboard, clipboardErr, stdout, exitCode>>

\* ------------------------------------------------------ main: flag.Parse
SeqsUpTo(S, n) == UNION {[1..k -> S] : k \in 0..n}

\* A string flag on the command line: absent, or present with a value (which
\* may be the empty string, as in -s "").  flag.StringVar leaves the variable
\* at its default "" when the flag is absent.
Absent == [given |-> FALSE, value |-> ""]
Given(v) == [given |-> TRUE, value |-> v]
FlagOpts(v) == {Absent, Given(""), Given(v)}
TextOpts == {[given |-> FALSE, value |-> <<>>], [given |-> TRUE, value |-> <<>>],
             [given |-> TRUE, value |-> <<"T">>]}

\* The positional arguments: each a word, possibly the empty word.
ArgVals == {<<>>, <<"a">>}

CommandLines ==
    [text : TextOpts,
     source_lang : FlagOpts("DE"), s : FlagOpts("FR"),
     target_lang : FlagOpts("ES"), t : FlagOpts("IT"),
     url : FlagOpts("http://flag"),
     version : BOOLEAN,
     positional : SeqsUpTo(ArgVals, MaxArgs)]

\* flag.Parse, then the -version / -v check.  A command line the flag package
\* rejects ends the process with code 2 inside flag.Parse.
ParseFlags ==
    /\ pc = "flags"
    /\ \/ /\ stderr' = Append(stderr, Log("usage", Err("flag", 0, "")))
          /\ exitCode' = 2
          /\ pc' = "exit"
          /\ UNCHANGED <<textArg, sourceLangArg, sourceLangShortArg,
                         targetLangArg, targetLangShortArg, urlArg, versionFlag,
                         args, stdout>>
       \/ \E cl \in CommandLines :
          /\ {f \in StringFlags : cl[f].given} = flagsGiven \cap StringFlags
          /\ cl.version = ("version" \in flagsGiven)
          /\ textArg' = cl.text.value
          /\ sourceLangArg' = cl.source_lang.value
          /\ sourceLangShortArg' = cl.s.value
          /\ targetLangArg' = cl.target_lang.value
          /\ targetLangShortArg' = cl.t.value
          /\ urlArg' = cl.url.value
          /\ versionFlag' = cl.version
          /\ args' = cl.positional
          /\ IF cl.version
                THEN /\ stdout' = Append(stdout, "deeplx-cli version " \o version)
                     /\ exitCode' = 0
                     /\ pc' = "exit"
                ELSE /\ pc' = "params"
                     /\ UNCHANGED <<stdout, exitCode>>
          /\ UNCHANGED stderr
    /\ UNCHANGED <<fs, configWrites, cfg, flagsGiven, finalURL, finalSourceLang,
                   finalTargetLang, stdinRead, inputText, requests, response,
                   translatedText, clipboard, clipboardErr>>

\* --------------------------------------- main: final parameters by priority
\* The URL with the config consulted last, so that it overrides the flag.
FinalURL_ConfigLast(c, url) ==
    LET fromFlag == IF url # "" THEN url ELSE defaultDeepLXAPI
    IN  IF c.URL # "" THEN c.URL ELSE fromFlag

FinalURL(c, url) ==
    LET fromConfig == IF c.URL # "" THEN c.URL ELSE defaultDeepLXAPI
    IN  IF url # "" THEN url ELSE fromConfig

\* The source language with the shorthand consulted before the long form.
FinalSourceLang_ShortFirst(c, long, short) ==
    IF short # "" THEN short
    ELSE IF long # "" THEN long
    ELSE IF c.SourceLang = "" THEN "auto"
    ELSE c.SourceLang

FinalSourceLang(c, long, short) ==
    IF long # "" THEN long
    ELSE IF short # "" THEN short
    ELSE IF c.SourceLang = "" THEN "auto"
    ELSE c.SourceLang

FinalTargetLang(c, long, short) ==
    IF long # "" THEN long
    ELSE IF short # "" THEN short
    ELSE IF c.TargetLang = "" THEN "EN"
    ELSE c.TargetLang

DetermineParams ==
    /\ pc = "params"
    /\ finalURL' = FinalURL(cfg, urlArg)
    /\ finalSourceLang' = FinalSourceLang(cfg, sourceLangArg, sourceLangShortArg)
    /\ finalTargetLang' = FinalTargetLang(cfg, targetLangArg, targetLangShortArg)
    /\ pc' = "text"
    /\ UNCHANGED <<fs, configWrites, cfg, flagsGiven, textArg, sourceLangArg,
                   sourceLangShortArg, targetLangArg, targetLangShortArg, urlArg,
                   versionFlag, args, stdinRead, inputText, requests, response,
                   translatedText, clipboard, clipboardErr, stdout, stderr, exitCode>>

\* ------------------------------------------------ main: text to translate
\* The loop over flag.Args(): after i arguments the text is the first i
\* arguments, each but the last of all followed by one space.
RECURSIVE JoinLoop(_, _)
JoinLoop(a, i) ==
    IF i = 0 THEN <<>>
    ELSE JoinLoop(a, i - 1) \o a[i] \o (IF i < Len(a) THEN <<SP>> ELSE <<>>)

\* The loop with a space after every argument, the last included.
RECURSIVE JoinLoop_SpaceAfterEach(_, _)
JoinLoop_SpaceAfterEach(a, i) ==
    IF i = 0 THEN <<>> ELSE JoinLoop_SpaceAfterEach(a, i - 1) \o a[i] \o <<SP>>

JoinArgs_TrailingSpace(a) == JoinLoop_SpaceAfterEach(a, Len(a))

JoinArgs(a) == JoinLoop(a, Len(a))

\* Trimming every trailing occurrence of the suffix, as strings.TrimRight
\* does with a cutset.
RECURSIVE TrimSuffix_AllTrailing(_, _)
TrimSuffix_AllTrailing(str, suffix) ==
    IF /\ Len(suffix) > 0
       /\ Len(str) >= Len(suffix)
       /\ SubSeq(str, Len(str) - Len(suffix) + 1, Len(str)) = suffix
        THEN TrimSuffix_AllTrailing(SubSeq(str, 1, Len(str) - Len(suffix)), suffix)
        ELSE str

\* strings.TrimSuffix
TrimSuffix(str, suffix) ==
    IF /\ Len(str) >= Len(suffix)
       /\ SubSeq(str, Len(str) - Len(suffix) + 1, Len(str)) = suffix
        THEN SubSeq(str, 1, Len(str) - Len(suffix))
        ELSE str

StdinChars == {"H", LF}
StdinContents == SeqsUpTo(StdinChars, MaxStdinLen)

Prompt == "Enter text to translate (press Ctrl+D to finish input):"

\* No check: an empty text goes on to the translation.
CheckText_Skipped(text) ==
    /\ pc' = "translate"
    /\ UNCHANGED <<stderr, exitCode>>

\* The empty-text check that follows the three branches.
CheckText(text) ==
    IF text = <<>>
        THEN Fatal("No text provided for translation. Please use the -text flag or provide text via standard input.", NoErr)
        ELSE /\ pc' = "translate"
             /\ UNCHANGED <<stderr, exitCode>>

GetText ==
    /\ pc = "text"
    /\ \/ /\ textArg # <<>>
          /\ inputText' = textArg
          /\ CheckText(textArg)
          /\ UNCHANGED <<stdinRead, stdout>>
       \/ /\ textArg = <<>>
          /\ Len(args) > 0
          /\ inputText' = JoinArgs(args)
          /\ CheckText(JoinArgs(args))
          /\ UNCHANGED <<stdinRead, stdout>>
       \/ /\ textArg = <<>>
          /\ Len(args) = 0
          /\ stdout' = Append(stdout, Prompt)
          /\ \/ /\ Fatal("failed to read standard input", Err("stdin", 0, ""))
                /\ UNCHANGED <<stdinRead, inputText>>
             \/ \E bytes \in StdinContents :
                /\ stdinRead' = bytes
                /\ inputText' = TrimSuffix(bytes, <<LF>>)
                /\ CheckText(TrimSuffix(bytes, <<LF>>))
    /\ UNCHANGED <<fs, configWrites, cfg, flagsGiven, textArg, sourceLangArg,
                   sourceLangShortArg, targetLangArg, targetLangShortArg, urlArg,
                   versionFlag, args, finalURL, finalSourceLang, finalTargetLang,
                   requests, response, translatedText, clipboard, clipboardErr>>

\* ----------------------------------------------------------- translateText
\* The request with the two languages in each other's place.
JsonMarshalRequest_Swapped(text, sourceLang, targetLang) ==
    [text |-> text, source_lang |-> targetLang, target_lang |-> sourceLang]

\* json.Marshal of a TranslationRequest: one key per field, named by the
\* field's json tag.
JsonMarshalRequest(text, sourceLang, targetLang) ==
    [text |-> text, source_lang |-> sourceLang, target_lang |-> targetLang]

\* The call http.Post(apiURL, "application/json", body).
HttpPost(apiURL, body) ==
    [method |-> "POST", url |-> apiURL, contentType |-> "application/json", body |-> body]

\* json.Unmarshal into a TranslationResponse: a field takes the value of the
\* key its tag names and keeps its zero value when the document has no such
\* key.
JsonUnmarshalResponse(doc) ==
    [Code |-> IF "code" \in DOMAIN doc THEN doc.code ELSE 0,
     ID |-> IF "id" \in DOMAIN doc THEN doc.id ELSE 0,
     Message |-> IF "message" \in DOMAIN doc THEN doc.message ELSE "",
     Data |-> IF "data" \in DOMAIN doc THEN doc.data ELSE ""]

\* The outcomes of the HTTP exchange.
\*   sendOK   http.Post returned a response
\*   status   resp.StatusCode
\*   readOK   io.ReadAll(resp.Body) succeeded
\*   body     the bytes of the body (raw), whether they are a JSON document
\*            that fits TranslationResponse (parses), and that document
Body(raw, parses, doc) == [raw |-> raw, parses |-> parses, doc |-> doc]
Resp(sendOK, status, readOK, body) ==
    [sendOK |-> sendOK, status |-> status, readOK |-> readOK, body |-> body]

BodyOK == Body("{code:200,data:X}", TRUE, [code |-> 200, data |-> "X"])
BodyOKFull == Body("{code:200,id:7,message:ok,data:Y}", TRUE,
                   [code |-> 200, id |-> 7, message |-> "ok", data |-> "Y"])
BodyNoCode == Body("{message:no code,data:X}", TRUE, [message |-> "no code", data |-> "X"])
BodyFailed == Body("{code:503,message:busy,data:X}", TRUE,
                   [code |-> 503, message |-> "busy", data |-> "X"])
BodyGarbage == Body("<html>", FALSE, NoDoc)

Responses ==
    {Resp(FALSE, 0, FALSE, Body("", FALSE, NoDoc)),
     Resp(TRUE, 500, TRUE, BodyGarbage),
     Resp(TRUE, 404, TRUE, BodyOK),
     Resp(TRUE, StatusOK, FALSE, BodyOK),
     Resp(TRUE, StatusOK, TRUE, BodyGarbage),
     Resp(TRUE, StatusOK, TRUE, BodyOK),
     Resp(TRUE, StatusOK, TRUE, BodyOKFull),
     Resp(TRUE, StatusOK, TRUE, BodyNoCode),
     Resp(TRUE, StatusOK, TRUE, BodyFailed)}

\* translateText decoding the body before it looks at the HTTP status.
TranslateResult_DecodeFirst(resp) ==
    IF ~resp.sendOK
        THEN [data |-> "", err |-> Err("error sending request to DeepLX API", 0, "")]
    ELSE IF ~resp.readOK
        THEN [data |-> "", err |-> Err("error reading response body", 0, "")]
    ELSE IF resp.body.parses /\ JsonUnmarshalResponse(resp.body.doc).Code = 200
        THEN [data |-> JsonUnmarshalResponse(resp.body.doc).Data, err |-> NoErr]
    ELSE IF resp.status # StatusOK
        THEN [data |-> "",
              err |-> Err("DeepLX API returned non-200 status", resp.status, resp.body.raw)]
    ELSE IF ~resp.body.parses
        THEN [data |-> "", err |-> Err("error unmarshalling response", 0, "")]
    ELSE [data |-> "",
          err |-> Err("translation failed with code", JsonUnmarshalResponse(resp.body.doc).Code,
                      JsonUnmarshalResponse(resp.body.doc).Message)]

\* translateText without the check of the decoded code.
TranslateResult_NoCodeCheck(resp) ==
    IF ~resp.sendOK
        THEN [data |-> "", err |-> Err("error sending request to DeepLX API", 0, "")]
    ELSE IF resp.status # StatusOK
        THEN [data |-> "",
              err |-> Err("DeepLX API returned non-200 status", resp.status, resp.body.raw)]
    ELSE IF ~resp.readOK
        THEN [data |-> "", err |-> Err("error reading response body", 0, "")]
    ELSE IF ~resp.body.parses
        THEN [data |-> "", err |-> Err("error unmarshalling response", 0, "")]
    ELSE [data |-> JsonUnmarshalResponse(resp.body.doc).Data, err |-> NoErr]

\* translateText reporting the HTTP status where the decoded code belongs.
TranslateResult_StatusAsCode(resp) ==
    IF ~resp.sendOK
        THEN [data |-> "", err |-> Err("error sending request to DeepLX API", 0, "")]
    ELSE IF resp.status # StatusOK
        THEN [data |-> "",
              err |-> Err("DeepLX API returned non-200 status", resp.status, resp.body.raw)]
    ELSE IF ~resp.readOK
        THEN [data |-> "", err |-> Err("error reading response body", 0, "")]
    ELSE IF ~resp.body.parses
        THEN [data |-> "", err |-> Err("error unmarshalling response", 0, "")]
    ELSE LET translationResponse == JsonUnmarshalResponse(resp.body.doc) IN
        IF translationResponse.Code # 200
            THEN [data |-> "",
                  err |-> Err("translation failed with code", resp.status,
                              translationResponse.Message)]
            ELSE [data |-> translationResponse.Data, err |-> NoErr]

\* What translateText returns once http.Post has ended as resp.
TranslateResult(resp) ==
    IF ~resp.sendOK
        THEN [data |-> "", err |-> Err("error sending request to DeepLX API", 0, "")]
    ELSE IF resp.status # StatusOK
        THEN [data |-> "",
              err |-> Err("DeepLX API returned non-200 status", resp.status, resp.body.raw)]
    ELSE IF ~resp.readOK
        THEN [data |-> "", err |-> Err("error reading response body", 0, "")]
    ELSE IF ~resp.body.parses
        THEN [data |-> "", err |-> Err("error unmarshalling response", 0, "")]
    ELSE LET translationResponse == JsonUnmarshalResponse(resp.body.doc) IN
        IF translationResponse.Code # 200
            THEN [data |-> "",
                  err |-> Err("translation failed with code", translationResponse.Code,
                              translationResponse.Message)]
            ELSE [data |-> translationResponse.Data, err |-> NoErr]

\* translateText: the request it posts, and what it returns.
translateText(text, sourceLang, targetLang, apiURL, resp) ==
    [request |-> HttpPost(apiURL, JsonMarshalRequest(text, sourceLang, targetLang)),
     result |-> TranslateResult(resp)]

\* The translation step going on to the clipboard and the print after an
\* error of translateText.
Translate_ContinueOnError ==
    /\ pc = "translate"
    /\ \E resp \in Responses :
        LET t == translateText(inputText, finalSourceLang, finalTargetLang, finalURL, resp) IN
        /\ requests' = Append(requests, t.request)
        /\ response' = resp
        /\ translatedText' = t.result.data
        /\ IF t.result.err # NoErr
              THEN stderr' = Append(stderr, Log("Translation failed", t.result.err))
              ELSE stderr' = stderr
        /\ pc' = "clipboard"
        /\ UNCHANGED exitCode
    /\ UNCHANGED <<fs, configWrites, cfg, flagsGiven, textArg, sourceLangArg,
                   sourceLangShortArg, targetLangArg, targetLangShortArg, urlArg,
                   versionFlag, args, finalURL, finalSourceLang, finalTargetLang,
                   stdinRead, inputText, clipboard, clipboardErr, stdout>>

\* --------------------------------------------------- main: the translation
Translate ==
    /\ pc = "translate"
    /\ \E resp \in Responses :
        LET t == translateText(inputText, finalSourceLang, finalTargetLang, finalURL, resp) IN
        /\ requests' = Append(requests, t.request)
        /\ response' = resp
        /\ translatedText' = t.result.data
        /\ IF t.result.err # NoErr
              THEN Fatal("Translation failed", t.result.err)
              ELSE /\ pc' = "clipboard"
                   /\ UNCHANGED <<stderr, exitCode>>
    /\ UNCHANGED <<fs, configWrites, cfg, flagsGiven, textArg, sourceLangArg,
                   sourceLangShortArg, targetLangArg, targetLangShortArg, urlArg,
                   versionFlag, args, finalURL, finalSourceLang, finalTargetLang,
                   stdinRead, inputText, clipboard, clipboardErr, stdout>>

\* The clipboard step copying the raw response body, not the translated text.
CopyToClipboard_CopiesRawBody ==
    /\ pc = "clipboard"
    /\ \E ok \in BOOLEAN :
        /\ clipboard' = IF ok THEN response.body.raw ELSE clipboard
        /\ clipboardErr' = IF ok THEN NoErr ELSE Err("clipboard", 0, "")
    /\ pc' = "print"
    /\ UNCHANGED <<fs, configWrites, cfg, flagsGiven, textArg, sourceLangArg,
                   sourceLangShortArg, targetLangArg, targetLangShortArg, urlArg,
                   versionFlag, args, finalURL, finalSourceLang, finalTargetLang,
                   stdinRead, inputText, requests, response, translatedText,
                   stdout, stderr, exitCode>>

\* The clipboard step with a failed write treated as fatal.
CopyToClipboard_FatalOnFailure ==
    /\ pc = "clipboard"
    /\ \E ok \in BOOLEAN :
        IF ok
            THEN /\ clipboard' = translatedText
                 /\ clipboardErr' = NoErr
                 /\ pc' = "print"
                 /\ UNCHANGED <<stderr, exitCode>>
            ELSE /\ clipboard' = clipboard
                 /\ clipboardErr' = Err("clipboard", 0, "")
                 /\ Fatal("failed to copy to clipboard", Err("clipboard", 0, ""))
    /\ UNCHANGED <<fs, configWrites, cfg, flagsGiven, textArg, sourceLangArg,
                   sourceLangShortArg, targetLangArg, targetLangShortArg, urlArg,
                   versionFlag, args, finalURL, finalSourceLang, finalTargetLang,
                   stdinRead, inputText, requests, response, translatedText,
                   stdout>>

\* The clipboard step reporting its outcome on standard output.
CopyToClipboard_Noisy ==
    /\ pc = "clipboard"
    /\ \E ok \in BOOLEAN :
        /\ clipboard' = IF ok THEN translatedText ELSE clipboard
        /\ clipboardErr' = IF ok THEN NoErr ELSE Err("clipboard", 0, "")
        /\ stdout' = Append(stdout, IF ok THEN "Copied to clipboard" ELSE "Failed to copy to clipboard")
    /\ pc' = "print"
    /\ UNCHANGED <<fs, configWrites, cfg, flagsGiven, textArg, sourceLangArg,
                   sourceLangShortArg, targetLangArg, targetLangShortArg, urlArg,
                   versionFlag, args, finalURL, finalSourceLang, finalTargetLang,
                   stdinRead, inputText, requests, response, translatedText,
                   stderr, exitCode>>

\* ------------------------------------------------------- main: clipboard
\* clipboard.WriteAll: either outcome is ignored.
CopyToClipboard ==
    /\ pc = "clipboard"
    /\ \E ok \in BOOLEAN :
        /\ clipboard' = IF ok THEN translatedText ELSE clipboard
        /\ clipboardErr' = IF ok THEN NoErr ELSE Err("clipboard", 0, "")
    /\ pc' = "print"
    /\ UNCHANGED <<fs, configWrites, cfg, flagsGiven, textArg, sourceLangArg,
                   sourceLangShortArg, targetLangArg, targetLangShortArg, urlArg,
                   versionFlag, args, finalURL, finalSourceLang, finalTargetLang,
                   stdinRead, inputText, requests, response, translatedText,
                   stdout, stderr, exitCode>>

\* ---------------------------------------------- main: print, end of main
PrintResult ==
    /\ pc = "print"
    /\ stdout' = Append(stdout, translatedText)
    /\ exitCode' = 0
    /\ pc' = "exit"
    /\ UNCHANGED <<fs, configWrites, cfg, flagsGiven, textArg, sourceLangArg,
                   sourceLangShortArg, targetLangArg, targetLangShortArg, urlArg,
                   versionFlag, args, finalURL, finalSourceLang, finalTargetLang,
                   stdinRead, inputText, requests, response, translatedText,
                   clipboard, clipboardErr, stderr>>

\* ------------------------------------------------------------ specification
Next ==
    \/ GetUser
    \/ CheckConfig
    \/ LoadConfig
    \/ ParseFlags
    \/ DetermineParams
    \/ GetText
    \/ Translate
    \/ CopyToClipboard
    \/ PrintResult

Spec == Init /\ [][Next]_vars

\* ================================================================ properties
\* Positions of main() after the final parameters have been determined.
AfterParams == {"text", "translate", "clipboard", "print"}

\* The last log line, and the message the process died with (if it did).
LastLog == IF stderr = <<>> THEN Log("", NoErr) ELSE stderr[Len(stderr)]
FatalMessage == IF pc = "exit" /\ exitCode = 1 THEN LastLog.msg ELSE ""

\* The run got as far as calling translateText.
ReachedTranslation ==
    \/ pc \in {"clipboard", "print"}
    \/ pc = "exit" /\ exitCode = 0 /\ ~versionFlag
    \/ FatalMessage = "Translation failed"

\* The run ended with the translated text printed.
Succeeded == pc = "exit" /\ exitCode = 0 /\ ~versionFlag

\* ------------------------------------------------------------------------ C1
\* C1, as stated: the effective source (target) language is the long-form
\* flag's value if the flag is on the command line, otherwise the shorthand's
\* value if that is on the command line, otherwise the config value if it is
\* not empty, otherwise "auto" ("EN").
C1_Stated ==
    pc \in AfterParams =>
        /\ finalSourceLang =
              IF "source_lang" \in flagsGiven THEN sourceLangArg
              ELSE IF "s" \in flagsGiven THEN sourceLangShortArg
              ELSE IF cfg.SourceLang # "" THEN cfg.SourceLang
              ELSE "auto"
        /\ finalTargetLang =
              IF "target_lang" \in flagsGiven THEN targetLangArg
              ELSE IF "t" \in flagsGiven THEN targetLangShortArg
              ELSE IF cfg.TargetLang # "" THEN cfg.TargetLang
              ELSE "EN"

\* One language resolved by the precedence in which a flag counts only when
\* its value is not empty.
ByPrecedence(final, long, short, fromConfig, default) ==
    /\ long # "" => final = long
    /\ long = "" /\ short # "" => final = short
    /\ long = "" /\ short = "" /\ fromConfig # "" => final = fromConfig
    /\ long = "" /\ short = "" /\ fromConfig = "" => final = default

\* C1, amended: the effective source (target) language is the long-form
\* flag's value if it is not empty, otherwise the shorthand's value if it is
\* not empty, otherwise the config value if it is not empty, otherwise "auto"
\* ("EN"); a flag given with an empty value counts as absent.
C1_Precedence ==
    pc \in AfterParams =>
        /\ ByPrecedence(finalSourceLang, sourceLangArg, sourceLangShortArg,
                        cfg.SourceLang, "auto")
        /\ ByPrecedence(finalTargetLang, targetLangArg, targetLangShortArg,
                        cfg.TargetLang, "EN")

\* Both flags and the config give a source language and the long form wins;
\* only the shorthand and the config give a target language and the shorthand
\* wins.
C1_Witness ==
    /\ pc = "text"
    /\ sourceLangArg = "DE" /\ sourceLangShortArg = "FR" /\ cfg.SourceLang = "JA"
    /\ finalSourceLang = "DE"
    /\ "target_lang" \notin flagsGiven /\ targetLangShortArg = "IT" /\ cfg.TargetLang = "ZH"
    /\ finalTargetLang = "IT"

\* ------------------------------------------------------------------------ C2
\* C2, as stated: the effective URL is the -url flag's value if the flag is on
\* the command line, otherwise the config url if it is not empty, otherwise
\* the default constant.
C2_Stated ==
    pc \in AfterParams =>
        finalURL = IF "url" \in flagsGiven THEN urlArg
                   ELSE IF cfg.URL # "" THEN cfg.URL
                   ELSE defaultDeepLXAPI

\* C2, amended: the effective URL is the -url flag's value if it is not empty,
\* otherwise the config url if it is not empty, otherwise the default
\* constant; -url given with an empty value counts as absent.
C2_Precedence ==
    pc \in AfterParams =>
        /\ urlArg # "" => finalURL = urlArg
        /\ urlArg = "" /\ cfg.URL # "" => finalURL = cfg.URL
        /\ urlArg = "" /\ cfg.URL = "" => finalURL = defaultDeepLXAPI

\* The flag and the config both give a URL and the flag's is the effective one.
C2_Witness ==
    /\ pc = "text"
    /\ urlArg = "http://flag" /\ cfg.URL = "http://localhost:8080"
    /\ finalURL = "http://flag"

\* ------------------------------------------------------------------------ C3
\* The words of a list joined by single spaces, in order.
RECURSIVE SpaceJoined(_)
SpaceJoined(a) ==
    IF Len(a) = 0 THEN <<>>
    ELSE IF Len(a) = 1 THEN a[1]
    ELSE a[1] \o <<SP>> \o SpaceJoined(Tail(a))

\* The text resolution has run: the run is past it, or died in it for want
\* of a text.
TextResolved ==
    \/ pc \in {"translate", "clipboard", "print"}
    \/ ReachedTranslation
    \/ FatalMessage = "No text provided for translation. Please use the -text flag or provide text via standard input."

\* C3, as stated: the input text is the -text value if the flag is on the
\* command line, otherwise the positional arguments joined by single spaces,
\* otherwise the whole of standard input.
C3_Stated ==
    TextResolved =>
        inputText = IF "text" \in flagsGiven THEN textArg
                    ELSE IF Len(args) > 0 THEN SpaceJoined(args)
                    ELSE stdinRead

\* A text without its last character when that is a newline.
WithoutFinalNewline(str) ==
    IF Len(str) > 0 /\ str[Len(str)] = LF THEN SubSeq(str, 1, Len(str) - 1) ELSE str

\* C3, amended: the input text is the -text value if it is not empty,
\* otherwise the positional arguments (if there are any) joined by single
\* spaces in their order, otherwise the whole of standard input less one
\* final newline; standard input is read only when the -text value is empty
\* and there is no positional argument.
C3_Precedence ==
    /\ TextResolved =>
        /\ textArg # <<>> => inputText = textArg
        /\ textArg = <<>> /\ Len(args) > 0 => inputText = SpaceJoined(args)
        /\ textArg = <<>> /\ Len(args) = 0 =>
              stdinRead # NoRead /\ inputText = WithoutFinalNewline(stdinRead)
    /\ stdinRead # NoRead => textArg = <<>> /\ Len(args) = 0

\* Two positional arguments and no -text: the text is the two, one space
\* between them.
C3_Witness ==
    /\ pc = "translate"
    /\ "text" \notin flagsGiven
    /\ args = << <<"a">>, <<"a">> >>
    /\ inputText = <<"a", SP, "a">>
    /\ stdinRead = NoRead

\* ------------------------------------------------------------------------ C4
\* C4: once a run has reached the translation it has issued exactly one
\* request, a POST to the effective URL with the resolved text and the
\* effective languages in its JSON body; before that it has issued none, and
\* it never issues a second one.
C4_OneRequest ==
    /\ Len(requests) <= 1
    /\ ReachedTranslation <=> Len(requests) = 1
    /\ Len(requests) = 1 =>
        /\ requests[1].method = "POST"
        /\ requests[1].url = finalURL
        /\ DOMAIN requests[1].body = {"text", "source_lang", "target_lang"}
        /\ requests[1].body.text = inputText
        /\ requests[1].body.source_lang = finalSourceLang
        /\ requests[1].body.target_lang = finalTargetLang

\* A run whose only request failed at the application level and which has
\* ended without another request.
C4_Witness ==
    /\ pc = "exit"
    /\ response = Resp(TRUE, StatusOK, TRUE, BodyFailed)
    /\ Len(requests) = 1
    /\ requests[1].body.source_lang = "FR"
    /\ requests[1].body.target_lang = "ZH"
    /\ requests[1].body.text = <<"H">>

\* ------------------------------------------------------------------------ C5
\* The exchange succeeded in the sense of the claim.
ExchangeOK(resp) ==
    /\ resp.sendOK
    /\ resp.status = 200
    /\ resp.readOK
    /\ resp.body.parses
    /\ "code" \in DOMAIN resp.body.doc
    /\ resp.body.doc.code = 200

\* C5: translate returns the response's data, and no error, exactly when the
\* transport succeeded, the status is 200, the body decodes and its code is
\* 200; otherwise it returns an error and no text.
C5_DataOrError ==
    ReachedTranslation =>
        IF ExchangeOK(response)
            THEN /\ FatalMessage = ""
                 /\ translatedText = response.body.doc.data
            ELSE /\ FatalMessage = "Translation failed"
                 /\ LastLog.err # NoErr
                 /\ translatedText = ""

\* The stub of the tests: code 200 and a data field, returned as the result.
C5_Witness ==
    /\ pc = "clipboard"
    /\ response = Resp(TRUE, StatusOK, TRUE, BodyOK)
    /\ translatedText = "X"

\* ------------------------------------------------------------------------ C6
\* The body was decoded (the exchange got that far).
Decoded(resp) == resp.sendOK /\ resp.status = 200 /\ resp.readOK /\ resp.body.parses

\* The code of a decoded body: 0 when it has no code field.
CodeOf(resp) == IF "code" \in DOMAIN resp.body.doc THEN resp.body.doc.code ELSE 0
MessageOf(resp) == IF "message" \in DOMAIN resp.body.doc THEN resp.body.doc.message ELSE ""

\* C6: a decoded body whose code is not 200 (a missing code included) makes
\* the run end in a fatal error that carries that code and the body's
\* message, whatever its data field holds.
C6_CodeAndMessage ==
    ReachedTranslation /\ Decoded(response) /\ CodeOf(response) # 200 =>
        /\ pc = "exit"
        /\ exitCode = 1
        /\ LastLog.msg = "Translation failed"
        /\ LastLog.err.kind = "translation failed with code"
        /\ LastLog.err.code = CodeOf(response)
        /\ LastLog.err.detail = MessageOf(response)
        /\ translatedText = ""

\* A body without a code field and with a data field: the run has died with
\* code 0 and the body's message.
C6_Witness ==
    /\ pc = "exit"
    /\ response = Resp(TRUE, StatusOK, TRUE, BodyNoCode)
    /\ LastLog.err.code = 0
    /\ LastLog.err.detail = "no code"

\* ------------------------------------------------------------------------ C7
\* The command line and standard input resolve to an empty text: an empty
\* -text value and either positional arguments that join to nothing, or no
\* positional argument and a standard input that is empty or one newline.
EmptyInput ==
    /\ textArg = <<>>
    /\ \/ Len(args) > 0 /\ SpaceJoined(args) = <<>>
       \/ Len(args) = 0 /\ stdinRead \in {<<>>, <<LF>>}

\* C7: a run whose input text resolves to the empty text ends fatally with a
\* non-zero exit code once the text is resolved; it sends no request, leaves
\* the clipboard alone and prints no translated text.
C7_EmptyInputFatal ==
    pc \in {"translate", "clipboard", "print", "exit"} /\ ~versionFlag /\ EmptyInput =>
        /\ pc = "exit"
        /\ exitCode = 1
        /\ requests = <<>>
        /\ clipboard = "previous clipboard"
        /\ \A i \in 1..Len(stdout) : stdout[i] = Prompt

\* Standard input was a single newline and the run has died.
C7_Witness ==
    /\ pc = "exit"
    /\ "text" \in flagsGiven
    /\ stdinRead = <<LF>>
    /\ exitCode = 1
    /\ requests = <<>>

\* ------------------------------------------------------------------------ C8
\* C8, as stated: whatever the state of the config file, configuration
\* handling never ends the process; the run goes on to flag parsing.
C8_Stated ==
    FatalMessage \notin {"failed to check config file"}

\* ------------------------------------------------------------------------ C9
\* The run found the config file absent.
FoundAbsent ==
    \E i \in 1..Len(stderr) :
        stderr[i].msg = "Config file does not exist, generating default config."

WriteFailed ==
    \E i \in 1..Len(stderr) :
        stderr[i].msg = "Warning: Failed to write default config file"

\* C9: a run that finds the config file absent attempts one write, of the
\* default config, and goes on with the default values as its configuration
\* whether the write succeeded or not; with no flag given the effective URL
\* and languages are the defaults in both cases.
C9_DefaultsWhenAbsent ==
    FoundAbsent =>
        /\ configWrites = 1
        /\ ~WriteFailed => fs.exists /\ fs.parses /\ YamlGet(fs.doc, "url") = defaultDeepLXAPI
                           /\ YamlGet(fs.doc, "source_lang") = "auto"
                           /\ YamlGet(fs.doc, "target_lang") = "EN"
        /\ pc \in {"flags", "params"} \cup AfterParams =>
              /\ cfg.URL = defaultDeepLXAPI
              /\ cfg.SourceLang = "auto"
              /\ cfg.TargetLang = "EN"
        /\ pc \in AfterParams /\ flagsGiven = {} =>
              /\ finalURL = defaultDeepLXAPI
              /\ finalSourceLang = "auto"
              /\ finalTargetLang = "EN"

\* The write of the default config failed and the run, without flags, went
\* on with the defaults.
C9_Witness ==
    /\ pc = "text"
    /\ FoundAbsent /\ WriteFailed
    /\ ~fs.exists
    /\ flagsGiven = {}
    /\ cfg = DefaultConfig
    /\ finalURL = defaultDeepLXAPI

\* ----------------------------------------------------------------------- C10
\* C10, as stated: on a successful run the translated text is the only line
\* written to standard output, however the text was supplied.
C10_Stated ==
    Succeeded => stdout = <<response.body.doc.data>>

\* C10, amended: on a successful run the translated text is the last line
\* written to standard output; it is the only line when the text came from
\* -text or the positional arguments, and it follows one line, the prompt,
\* when the text came from standard input.
C10_LastLine ==
    Succeeded =>
        /\ stdout # <<>>
        /\ stdout[Len(stdout)] = response.body.doc.data
        /\ stdinRead = NoRead => stdout = <<response.body.doc.data>>
        /\ stdinRead # NoRead => stdout = <<Prompt, response.body.doc.data>>

\* A successful run whose text came from standard input: two lines.
C10_Witness ==
    /\ Succeeded
    /\ stdinRead = <<"H", LF>>
    /\ inputText = <<"H">>
    /\ stdout = <<Prompt, "X">>

\* ----------------------------------------------------------------------- C11
\* What a run that got a good response has written to standard output when
\* it ends: the prompt if it read standard input, then the data.
OutputFor(resp) ==
    (IF stdinRead = NoRead THEN <<>> ELSE <<Prompt>>) \o <<resp.body.doc.data>>

\* C11: the exit code and the standard output of a run that ends after a
\* good response are fixed by its input and that response alone: 0 and the
\* translated text, whether the clipboard write succeeded (the clipboard
\* holds the text) or failed (the clipboard is as it was).
C11_ClipboardIrrelevant ==
    pc = "exit" /\ ExchangeOK(response) =>
        /\ exitCode = 0
        /\ stdout = OutputFor(response)

\* A run whose clipboard write failed has ended with code 0 and the text.
C11_Witness ==
    /\ pc = "exit"
    /\ response = Resp(TRUE, StatusOK, TRUE, BodyOK)
    /\ clipboard = "previous clipboard"
    /\ exitCode = 0
    /\ stdout = <<"X">>

\* ----------------------------------------------------------------------- C12
\* C12: a run whose translate operation failed has ended, with exit code 1,
\* in the step that called it: the clipboard is as it was, no translated
\* text is on standard output and there was the one request only.
C12_FailureIsFatal ==
    Len(requests) > 0 /\ ~ExchangeOK(response) =>
        /\ pc = "exit"
        /\ exitCode = 1
        /\ clipboard = "previous clipboard"
        /\ \A i \in 1..Len(stdout) : stdout[i] = Prompt
        /\ Len(requests) = 1

\* The API answered 404: the run is over and the clipboard untouched.
C12_Witness ==
    /\ pc = "exit"
    /\ response = Resp(TRUE, 404, TRUE, BodyOK)
    /\ exitCode = 1
    /\ clipboard = "previous clipboard"
    /\ stdout = <<>>

\* ----------------------------------------------------------------------- C13
VersionLine == "deeplx-cli version " \o version

\* C13, as stated: a run started with -version or -v (by a user that can be
\* looked up, with a command line the flag package accepts) has, when it
\* ends, printed the version string and exited with code 0, whatever the
\* other flags, the state of the config file and the input are.
C13_Stated ==
    /\ "version" \in flagsGiven
    /\ pc = "exit"
    /\ FatalMessage # "failed to get current user home directory"
    /\ exitCode # 2
    => /\ exitCode = 0
       /\ stdout = <<VersionLine>>

\* ----------------------------------------------------------------------- C14
\* C14, as stated: a run whose command line names no source language flag
\* (-source_lang, -s) or no target language flag (-target_lang, -t) sends no
\* translation request.
C14_Stated ==
    \/ flagsGiven \cap {"source_lang", "s"} = {}
    \/ flagsGiven \cap {"target_lang", "t"} = {}
    => requests = <<>>

\* ----------------------------------------------------------------------- C15
\* C15, as stated: a run that succeeded on a response with code 200 and data
\* X has exited 0, X is the last line of its output and the clipboard holds X.
C15_Stated ==
    Succeeded /\ ExchangeOK(response) =>
        /\ exitCode = 0
        /\ stdout # <<>> /\ stdout[Len(stdout)] = response.body.doc.data
        /\ clipboard = response.body.doc.data

\* C15, amended: a run that succeeded on a response with code 200 and data X
\* has exited 0 and X is the last line of its output; the clipboard holds X
\* if the clipboard write succeeded and is as it was before the run if the
\* write failed; the text handed to the clipboard is the text printed.
C15_PrintedAndCopied ==
    Succeeded /\ ExchangeOK(response) =>
        /\ exitCode = 0
        /\ stdout # <<>> /\ stdout[Len(stdout)] = response.body.doc.data
        /\ clipboardErr = NoErr => clipboard = stdout[Len(stdout)]
        /\ clipboardErr # NoErr => clipboard = "previous clipboard"

\* The end-to-end test: -text, -url, -s and -t given, the stub answers code
\* 200 with a data field, the clipboard write succeeds.
C15_Witness ==
    /\ Succeeded
    /\ textArg = <<"T">> /\ urlArg = "http://flag"
    /\ sourceLangShortArg = "FR" /\ targetLangShortArg = "IT"
    /\ response = Resp(TRUE, StatusOK, TRUE, BodyOK)
    /\ clipboardErr = NoErr
    /\ clipboard = "X"
    /\ stdout = <<"X">>

\* ----------------------------------------------------------------------- C16
\* The config file, as loadConfig found it, gives all three keys.
ExplicitConfig ==
    /\ fs.exists /\ fs.readable /\ fs.parses
    /\ {"url", "source_lang", "target_lang"} \subseteq DOMAIN fs.doc

LoadWarned ==
    \E i \in 1..Len(stderr) :
        stderr[i].msg = "Warning: Failed to load or parse config file, using default values or command-line arguments"

\* C16, as stated: once a config file that gives url, source_lang and
\* target_lang has been loaded, the configuration holds exactly those three
\* values and no load error was reported; in a run without flags they are
\* the effective URL and languages.
C16_Stated ==
    ExplicitConfig /\ pc \in {"flags", "params"} \cup AfterParams =>
        /\ cfg.URL = fs.doc.url
        /\ cfg.SourceLang = fs.doc.source_lang
        /\ cfg.TargetLang = fs.doc.target_lang
        /\ ~LoadWarned
        /\ pc \in AfterParams /\ flagsGiven = {} =>
              /\ finalURL = fs.doc.url
              /\ finalSourceLang = fs.doc.source_lang
              /\ finalTargetLang = fs.doc.target_lang

\* C16, amended: once a config file that gives url, source_lang and
\* target_lang has been loaded, the configuration holds exactly those three
\* values and no load error was reported; in a run without flags each of
\* them that is not empty is the effective value, and an empty one gives way
\* to the built-in default.
C16_LoadedAsWritten ==
    ExplicitConfig /\ pc \in {"flags", "params"} \cup AfterParams =>
        /\ cfg.URL = fs.doc.url
        /\ cfg.SourceLang = fs.doc.source_lang
        /\ cfg.TargetLang = fs.doc.target_lang
        /\ ~LoadWarned
        /\ pc \in AfterParams /\ flagsGiven = {} =>
              /\ finalURL = IF fs.doc.url # "" THEN fs.doc.url ELSE defaultDeepLXAPI
              /\ finalSourceLang =
                    IF fs.doc.source_lang # "" THEN fs.doc.source_lang ELSE "auto"
              /\ finalTargetLang =
                    IF fs.doc.target_lang # "" THEN fs.doc.target_lang ELSE "EN"

\* The config file of the tests, found in place and loaded, in a run
\* without flags.
C16_Witness ==
    /\ pc = "text"
    /\ fs.doc = DocFull /\ fs.readable /\ configWrites = 0
    /\ flagsGiven = {}
    /\ cfg = [URL |-> "http://localhost:8080", SourceLang |-> "JA", TargetLang |-> "ZH"]
    /\ finalURL = "http://localhost:8080"
    /\ finalSourceLang = "JA"
    /\ finalTargetLang = "ZH"

\* ----------------------------------------------------------------------- C17
\* C17: the only step that writes the config file, or tries to, is the
\* generation step, taken once, when the file was found absent and nothing
\* had been written yet; every other step, and the generation step of a run
\* that found a file (valid or not), leaves the file as it is.
C17_WrittenOnceIfAbsent ==
    [][(fs' # fs \/ configWrites' # configWrites) =>
            /\ pc = "stat"
            /\ ~fs.exists
            /\ configWrites = 0
            /\ configWrites' = 1]_vars

\* A run that found an unparseable config file has translated and ended:
\* the file is as it was and nothing was written.
C17_Witness ==
    /\ Succeeded
    /\ fs.exists /\ ~fs.parses
    /\ LoadWarned
    /\ configWrites = 0

\* ----------------------------------------------------------------------- C18
\* C18: a response with a status other than 200 ends the run in an error
\* that carries the status and the raw body, whatever the body holds: a
\* well-formed body with code 200 and a data field gives no translated text.
C18_StatusBeforeBody ==
    Len(requests) > 0 /\ response.sendOK /\ response.status # 200 =>
        /\ FatalMessage = "Translation failed"
        /\ LastLog.err.kind = "DeepLX API returned non-200 status"
        /\ LastLog.err.code = response.status
        /\ LastLog.err.detail = response.body.raw
        /\ translatedText = ""
        /\ \A i \in 1..Len(stdout) : stdout[i] = Prompt

\* Status 404 with the body of a successful translation: the run has died
\* with the status and that body in its error.
C18_Witness ==
    /\ pc = "exit"
    /\ response.status = 404
    /\ response.body.parses /\ response.body.doc.code = 200 /\ response.body.doc.data = "X"
    /\ LastLog.err = Err("DeepLX API returned non-200 status", 404, "{code:200,data:X}")
    /\ translatedText = ""

\* ----------------------------------------------------------------------- C19
EndsWithNewline(str) == Len(str) > 0 /\ str[Len(str)] = LF

\* C19: a text that came from standard input is the content read without
\* its last newline if it ends with one (just one is removed), and the
\* content unchanged otherwise; newlines elsewhere are kept.
C19_OneNewlineTrimmed ==
    TextResolved /\ stdinRead # NoRead =>
        /\ EndsWithNewline(stdinRead) => inputText \o <<LF>> = stdinRead
        /\ ~EndsWithNewline(stdinRead) => inputText = stdinRead
        /\ stdinRead = <<"H", LF>> => inputText = <<"H">>
        /\ stdinRead = <<"H", LF, LF>> => inputText = <<"H", LF>>
        /\ stdinRead = <<"H">> => inputText = <<"H">>
        /\ stdinRead = <<LF, "H">> => inputText = <<LF, "H">>
        /\ stdinRead = <<"H", LF, "H">> => inputText = <<"H", LF, "H">>

\* Standard input ended with two newlines and the text ends with one.
C19_Witness ==
    /\ pc = "translate"
    /\ stdinRead = <<"H", LF, LF>>
    /\ inputText = <<"H", LF>>

====
